---- MODULE Spec2Model ----
(***************************************************************************)
(* A model of the two programs of the repository:                          *)
(*   esom_tracer.py    builds an ESOM class file from a NAMES table, an    *)
(*                     optional BAM/FASTA pair and an optional taxonomy    *)
(*                     table (specification Spec);                         *)
(*   phylosift_bins.py indexes a taxonomy table by byte offset and copies  *)
(*                     the records of the reads aligned to each bin        *)
(*                     (specification SpecBins; SpecIndex is its index     *)
(*                     build alone).                                       *)
(* Text is modelled as tuples of one-character strings, so that lower(),   *)
(* strip(), split(), int() and str() are computed and not assumed.         *)
(***************************************************************************)
EXTENDS Integers, Sequences, FiniteSets, TLC

\* ------------------------------------------------------------------ bounds
\* rows read from the NAMES table after its header
MaxNameRows == 3
\* rows read from the taxonomy table after its header (esom_tracer)
MaxTaxRows == 2
\* record lines of the taxonomy file phylosift_bins indexes
MaxTaxLines == 2
\* FASTA files (bins) given to phylosift_bins
MaxBins == 2
\* records read from one FASTA file
MaxRecords == 3

\* ---------------------------------------------------------- input alphabets
Contigs == {"c1", "c2"}
SubNames == {"s1", "s2"}
\* PointID columns: "1", "2", "10"
PointTokens == {<<"1">>, <<"2">>, <<"1", "0">>}
TaxonNames == {"Foo", "Bar"}
\* rank strings, as tuples of characters: "g", "G", "f"
RankStrings == {<<"g">>, <<"G">>, <<"f">>}
\* the empty string; an option that was not given (None) is falsy like it
Unset == <<>>
TaxLevels == {Unset, <<"g">>, <<"G">>}
\* -c/--coverage values: 0, and the default
DefaultCoverage == 50
Coverages == {0, DefaultCoverage}
\* per-reference BAM/FASTA data: read count, pileup columns, reference length
RefData == {[n |-> 0, b |-> 0, len |-> 2]}
           \cup [n : {3}, b : 0..2, len : {2}]
           \cup [n : {3}, b : {1, 2, 3}, len : {4}]
NoData == [n |-> 0, b |-> 0, len |-> 0]
NoRow == [contig |-> "", rank |-> <<>>, taxon |-> ""]

\* ----------------------------------------------------------------- helpers
EmptyDict == [x \in {} |-> 0]

\* d[k] = v of a Python dict
Put(d, k, v) == [x \in DOMAIN d \cup {k} |-> IF x = k THEN v ELSE d[x]]

Range(f) == {f[x] : x \in DOMAIN f}

DigitVal == [c \in {"0", "1", "2", "3", "4", "5", "6", "7", "8", "9"} |->
               CASE c = "0" -> 0 [] c = "1" -> 1 [] c = "2" -> 2 [] c = "3" -> 3
                 [] c = "4" -> 4 [] c = "5" -> 5 [] c = "6" -> 6 [] c = "7" -> 7
                 [] c = "8" -> 8 [] c = "9" -> 9]

DigitChar == <<"0", "1", "2", "3", "4", "5", "6", "7", "8", "9">>

RECURSIVE ParseInt(_)
\* int(token) of a string of decimal digits
ParseInt(tok) ==
  IF tok = <<>> THEN 0
  ELSE 10 * ParseInt(SubSeq(tok, 1, Len(tok) - 1)) + DigitVal[tok[Len(tok)]]

RECURSIVE FormatInt(_)
\* str(n) of a non-negative integer
FormatInt(n) ==
  IF n < 10 THEN <<DigitChar[n + 1]>>
  ELSE FormatInt(n \div 10) \o <<DigitChar[(n % 10) + 1]>>

LowerChar(c) == CASE c = "G" -> "g" [] c = "F" -> "f" [] OTHER -> c

\* str.lower()
Lower(s) == [i \in 1..Len(s) |-> LowerChar(s[i])]

RECURSIVE SortedSeq(_)
\* sorted(keys) of a set of integers
SortedSeq(S) ==
  IF S = {} THEN <<>>
  ELSE LET m == CHOOSE x \in S : \A y \in S : x <= y
       IN <<m>> \o SortedSeq(S \ {m})

\* ------------------------------------------------------------------- state
\* esom_tracer.py
VARIABLES pc, args, opened,
          references, seenRefs, reference, refData, HitSet,
          namesDict, tablePoints, dupPair, nread,
          classes, visited,
          tax_level, taxa, taxa_number, columns, acted, eligibleRows,
          header_colors, cls_count, cls_lines
\* phylosift_bins.py
VARIABLES bpc, taxfile, pos, location, line, file_index, builtIndex,
          binNo, unique, records, queried, prevQueried, reads, out

filterVars == <<references, seenRefs, reference, refData, HitSet>>
namesVars == <<namesDict, tablePoints, dupPair>>
taxaVars == <<tax_level, taxa, taxa_number, columns, acted, eligibleRows>>
outVars == <<header_colors, cls_count, cls_lines>>
tvars == <<pc, args, opened, filterVars, namesVars, nread, classes, visited,
           taxaVars, outVars>>
indexVars == <<taxfile, pos, location, line, file_index, builtIndex>>
binVars == <<binNo, unique, records, queried, prevQueried, reads, out>>
bvars == <<bpc, indexVars, binVars>>
vars == <<tvars, bvars>>

\* esom_tracer.py before its first statement
TracerInit ==
  /\ opened = {}
  /\ references = {}
  /\ seenRefs = {}
  /\ reference = ""
  /\ refData = NoData
  /\ HitSet = {}
  /\ namesDict = EmptyDict
  /\ tablePoints = {}
  /\ dupPair = FALSE
  /\ nread = 0
  /\ classes = EmptyDict
  /\ visited = {}
  /\ tax_level = Unset
  /\ taxa = EmptyDict
  /\ taxa_number = 1
  /\ columns = NoRow
  /\ acted = FALSE
  /\ eligibleRows = {}
  /\ header_colors = <<>>
  /\ cls_count = 0
  /\ cls_lines = <<>>

\* phylosift_bins.py before its first statement
BinsInit ==
  /\ pos = 0
  /\ location = 0
  /\ line = <<>>
  /\ file_index = EmptyDict
  /\ builtIndex = EmptyDict
  /\ binNo = 0
  /\ unique = <<>>
  /\ records = <<>>
  /\ queried = <<>>
  /\ prevQueried = {}
  /\ reads = <<>>
  /\ out = <<>>

Init ==
  /\ pc = "start"
  /\ args \in [bam : BOOLEAN, taxonomy : BOOLEAN, tax_level : TaxLevels,
               coverage : Coverages]
  /\ TracerInit
  /\ bpc = "idle"
  /\ taxfile = <<>>
  /\ BinsInit

\* ------------------------------------------------------- argument check
\* the argument check with its second test inverted
MutConfigError(a) == a.taxonomy /\ a.tax_level # Unset

\* if args.taxonomy and not args.tax_level
ConfigError(a) == a.taxonomy /\ a.tax_level = Unset

\* print(...); sys.exit(1)
Reject ==
  /\ pc = "start"
  /\ ConfigError(args)
  /\ pc' = "exit1"
  /\ UNCHANGED <<args, opened, filterVars, namesVars, nread, classes, visited,
                 taxaVars, outVars, bvars>>

\* references = {}; the BAM and FASTA files are opened when --bam is given
Begin ==
  /\ pc = "start"
  /\ ~ConfigError(args)
  /\ IF args.bam
       THEN pc' = "filter" /\ opened' = {"bam", "fasta"}
       ELSE pc' = "names" /\ opened' = {"names"}
  /\ UNCHANGED <<args, filterVars, namesVars, nread, classes, visited,
                 taxaVars, outVars, bvars>>

\* ------------------------------------------------------ coverage filter
\* the threshold test with > for >=
MutPassesFilter(d, coverage) ==
  /\ d.n # 0
  /\ d.b * 100 > coverage * d.len

\* read_count != 0 and float(bases) / float(referenceLength)
\*                       >= float(args.coverage) / 100.0
PassesFilter(d, coverage) ==
  /\ d.n # 0
  /\ d.b * 100 >= coverage * d.len

\* one iteration of "for reference in bam_handle.references"
FilterRef ==
  /\ pc = "filter"
  /\ \E r \in Contigs \ seenRefs, d \in RefData :
       /\ reference' = r
       /\ refData' = d
       /\ seenRefs' = seenRefs \cup {r}
       /\ references' = IF PassesFilter(d, args.coverage)
                          THEN references \cup {r} ELSE references
  /\ UNCHANGED <<pc, args, opened, HitSet, namesVars, nread, classes, visited,
                 taxaVars, outVars, bvars>>

\* the end of the with block: both handles are closed, names_dict() starts
FilterEnd ==
  /\ pc = "filter"
  /\ pc' = "names"
  /\ HitSet' = references
  /\ seenRefs' = {}
  /\ reference' = ""
  /\ refData' = NoData
  /\ opened' = opened \cup {"names"}
  /\ UNCHANGED <<args, references, namesVars, nread, classes, visited,
                 taxaVars, outVars, bvars>>

\* ---------------------------------------------------------- names_dict
\* columns = line.strip().split('\t'); temp_dict[columns[2]][columns[1]] = columns[0]
NamesInsert(d, row) ==
  LET inner == IF row[3] \in DOMAIN d THEN d[row[3]] ELSE EmptyDict
  IN Put(d, row[3], Put(inner, row[2], row[1]))

\* one iteration of "for line in names_handle"
NamesRow ==
  /\ pc = "names"
  /\ nread < MaxNameRows
  /\ \E row \in PointTokens \X SubNames \X Contigs :
       /\ namesDict' = NamesInsert(namesDict, row)
       /\ tablePoints' = tablePoints \cup {ParseInt(row[1])}
       /\ dupPair' = (dupPair \/ (/\ row[3] \in DOMAIN namesDict
                                  /\ row[2] \in DOMAIN namesDict[row[3]]))
  /\ nread' = nread + 1
  /\ UNCHANGED <<pc, args, opened, filterVars, classes, visited, taxaVars,
                 outVars, bvars>>

\* the integer PointIDs names_dict holds for contig name
PointsOf(d, name) == {ParseInt(d[name][sub]) : sub \in DOMAIN d[name]}

\* classes[int(names_dict[name][sub_name])] = value, for every sub_name
AssignAll(cls, d, name, value) ==
  [k \in DOMAIN cls \cup PointsOf(d, name) |->
     IF k \in PointsOf(d, name) THEN value ELSE cls[k]]

\* tax_level = tax_level.lower()
LowerLevel(level) == Lower(level)

\* end of the NAMES file: names_dict returns; binary mode or color_taxa starts
NamesEnd ==
  /\ pc = "names"
  /\ nread' = 0
  /\ IF ~args.taxonomy
       THEN /\ pc' = "binary"
            /\ UNCHANGED <<opened, tax_level>>
       ELSE /\ pc' = "taxa"
            /\ tax_level' = LowerLevel(args.tax_level)
            /\ opened' = opened \cup {"taxonomy"}
  /\ UNCHANGED <<args, filterVars, namesVars, classes, visited, taxa,
                 taxa_number, columns, acted, eligibleRows, outVars, bvars>>

\* ---------------------------------------------------------- binary mode
\* hit = True if name in references else False ... 1 if hit is True else 0
BinaryClass(name, refs) == IF name \in refs THEN 1 ELSE 0

\* one iteration of "for name in namesDict" (a dict: in any order)
BinaryName ==
  /\ pc = "binary"
  /\ \E name \in DOMAIN namesDict \ visited :
       /\ classes' = AssignAll(classes, namesDict, name,
                               BinaryClass(name, references))
       /\ visited' = visited \cup {name}
  /\ UNCHANGED <<pc, args, opened, filterVars, namesVars, nread, taxaVars,
                 outVars, bvars>>

\* header_colors = ['%0 255\t255\t255', '%1 255\t0\t0']
BinaryPalette == <<<<255, 255, 255>>, <<255, 0, 0>>>>

\* the loop over namesDict is over
BinaryEnd ==
  /\ pc = "binary"
  /\ visited = DOMAIN namesDict
  /\ header_colors' = BinaryPalette
  /\ visited' = {}
  /\ pc' = "write"
  /\ UNCHANGED <<args, opened, filterVars, namesVars, nread, classes,
                 taxaVars, cls_count, cls_lines, bvars>>

\* ------------------------------------------------------------ color_taxa
\* columns[3] == tax_level
RankMatch(rank, level) == rank = level

\* if not args.bam: references[columns[0]] = ''
BypassReferences(refs, row, bam) ==
  IF ~bam THEN refs \cup {row.contig} ELSE refs

\* the row condition without its coverage test
MutEligible(row, d, refs, level) ==
  /\ row.contig \in DOMAIN d
  /\ RankMatch(row.rank, level)

\* columns[0] in names_dict and columns[0] in references
\*                          and columns[3] == tax_level
Eligible(row, d, refs, level) ==
  /\ row.contig \in DOMAIN d
  /\ row.contig \in refs
  /\ RankMatch(row.rank, level)

\* one iteration of "for line in tax_handle"; acted records whether the
\* body of the if ran, eligibleRows the (contig, taxon) pairs it ran for
TaxRow ==
  /\ pc = "taxa"
  /\ nread < MaxTaxRows
  /\ \E row \in [contig : Contigs, rank : RankStrings, taxon : TaxonNames] :
       LET refs == BypassReferences(references, row, args.bam)
           isNew == row.taxon \notin DOMAIN taxa
           taxa1 == IF isNew THEN Put(taxa, row.taxon, taxa_number) ELSE taxa
       IN /\ columns' = row
          /\ references' = refs
          /\ IF Eligible(row, namesDict, refs, tax_level)
               THEN /\ taxa' = taxa1
                    /\ taxa_number' = IF isNew THEN taxa_number + 1
                                      ELSE taxa_number
                    /\ classes' = AssignAll(classes, namesDict, row.contig,
                                            taxa1[row.taxon])
                    /\ acted' = TRUE
                    /\ eligibleRows' =
                         eligibleRows \cup {<<row.contig, row.taxon>>}
               ELSE /\ acted' = FALSE
                    /\ UNCHANGED <<taxa, taxa_number, classes, eligibleRows>>
  /\ nread' = nread + 1
  /\ UNCHANGED <<pc, args, opened, seenRefs, reference, refData, HitSet,
                 namesVars, visited, tax_level, outVars, bvars>>

\* color_taxa without its default loop
MutFillDefaults(cls, d) == cls

\* classes[p] = 0 for every point of names_dict that is not yet in classes
FillDefaults(cls, d) ==
  LET all == UNION {PointsOf(d, name) : name \in DOMAIN d}
  IN [k \in DOMAIN cls \cup all |-> IF k \in DOMAIN cls THEN cls[k] ELSE 0]

\* colorsys.hsv_to_rgb(k / scale, 1.0, 1.0) times 255, each component given
\* as its numerator over the denominator scale
HsvToRgb(k, scale) ==
  LET i == (6 * k) \div scale
      f == (6 * k) % scale
      v == 255 * scale
      p == 0
      q == 255 * (scale - f)
      t == 255 * f
  IN CASE i % 6 = 0 -> <<v, t, p>>
       [] i % 6 = 1 -> <<q, v, p>>
       [] i % 6 = 2 -> <<p, v, t>>
       [] i % 6 = 3 -> <<p, q, v>>
       [] i % 6 = 4 -> <<t, p, v>>
       [] OTHER -> <<v, p, q>>

\* rgb tuples for the hues i / scale, i in range(scale)
rainbow_picker(scale) == [j \in 1..scale |-> HsvToRgb(j - 1, scale)]

\* a palette without the entry of class 0
MutPaletteScale(n) == n - 1

\* rainbow_picker(taxa_number): one colour per taxon and one for class 0
PaletteScale(n) == n

\* end of the taxonomy file: defaults, palette, return; the .taxa file is written
TaxEnd ==
  /\ pc = "taxa"
  /\ classes' = FillDefaults(classes, namesDict)
  /\ header_colors' = rainbow_picker(PaletteScale(taxa_number))
  /\ columns' = NoRow
  /\ acted' = FALSE
  /\ nread' = 0
  /\ opened' = opened \cup {"out.taxa"}
  /\ pc' = "write"
  /\ UNCHANGED <<args, filterVars, namesVars, visited, tax_level, taxa,
                 taxa_number, eligibleRows, cls_count, cls_lines, bvars>>

\* ------------------------------------------------------------- class file
\* '% {0}\n'.format(len(references))
HeaderCount(refs) == Cardinality(refs)

\* '{0}\t{1}\n'.format(str(key), str(value)) for key in sorted(classes.keys())
ClassLines(cls) ==
  LET keys == SortedSeq(DOMAIN cls)
  IN [i \in 1..Len(keys) |-> <<FormatInt(keys[i]), FormatInt(cls[keys[i]])>>]

\* with open(args.out + '.cls', 'w') ... sys.exit(0)
WriteCls ==
  /\ pc = "write"
  /\ opened' = opened \cup {"out.cls"}
  /\ cls_count' = HeaderCount(references)
  /\ cls_lines' = ClassLines(classes)
  /\ pc' = "done"
  /\ UNCHANGED <<args, filterVars, namesVars, nread, classes, visited,
                 taxaVars, header_colors, bvars>>

Next ==
  \/ Reject \/ Begin \/ FilterRef \/ FilterEnd
  \/ NamesRow \/ NamesEnd \/ BinaryName \/ BinaryEnd
  \/ TaxRow \/ TaxEnd \/ WriteCls

Spec == Init /\ [][Next]_vars

\* =========================================================================
\* phylosift_bins.py
\* =========================================================================
\* characters str.strip() removes
White == {" ", "\t", "\n"}

\* the taxonomy file's header line
HeaderLine == <<"#", "\n">>

\* record lines: "a\tx\n", "a b\tx\n", "b\tx\n", " a\tx\n", "\tb\n", "\n"
LineSet == { <<"a", "\t", "x", "\n">>,
             <<"a", " ", "b", "\t", "x", "\n">>,
             <<"b", "\t", "x", "\n">>,
             <<" ", "a", "\t", "x", "\n">>,
             <<"\t", "b", "\n">>,
             <<"\n">> }

\* an unterminated last line: none, or "b\tx"
TailSet == {<<>>, <<"b", "\t", "x">>}

RECURSIVE Concat(_)
Concat(ss) == IF ss = <<>> THEN <<>> ELSE Head(ss) \o Concat(Tail(ss))

\* the taxonomy files: the empty file, or a header, record lines and a tail
TaxFiles ==
  {<<>>} \cup
  { HeaderLine \o Concat(ls) \o t :
      ls \in UNION {[1..n -> LineSet] : n \in 0..MaxTaxLines}, t \in TailSet }

\* sequence identifiers of FASTA records, query names of aligned reads
SeqIds == {"s1", "s2"}
ReadNames == {<<"a">>, <<"b">>, <<"z">>}
\* what one bam.fetch may yield
ReadLists == {<<>>, <<<<"a">>>>, <<<<"z">>>>, <<<<"b">>, <<"a">>>>,
              <<<<"a">>, <<"z">>>>}

SetMin(S) == CHOOSE x \in S : \A y \in S : x <= y
SetMax(S) == CHOOSE x \in S : \A y \in S : x >= y

\* file.readline() at offset p: up to and including the next newline
ReadLine(content, p) ==
  LET nl == {i \in (p + 1)..Len(content) : content[i] = "\n"}
  IN IF p >= Len(content) THEN <<>>
     ELSE IF nl = {} THEN SubSeq(content, p + 1, Len(content))
     ELSE SubSeq(content, p + 1, SetMin(nl))

\* str.strip()
Strip(s) ==
  LET keep == {i \in 1..Len(s) : s[i] \notin White}
  IN IF keep = {} THEN <<>> ELSE SubSeq(s, SetMin(keep), SetMax(keep))

\* s.split(sep)[0]
SplitFirst(s, sep) ==
  LET hits == {i \in 1..Len(s) : s[i] = sep}
  IN IF hits = {} THEN s ELSE SubSeq(s, 1, SetMin(hits) - 1)

\* line.strip().split('\t')[0].split(' ')[0]
ReadName(l) == SplitFirst(SplitFirst(Strip(l), "\t"), " ")

\* the offset taken after the line was read
MutRecordedOffset(loc, p) == p

\* file_index[read_name].append(location): the offset taken before the read
RecordedOffset(loc, p) == loc

\* file_index[key].append(offset) on a defaultdict(list)
IndexAppend(index, key, offset) ==
  Put(index, key,
      IF key \in DOMAIN index THEN Append(index[key], offset) ELSE <<offset>>)

InitBins ==
  /\ pc = "idle"
  /\ args = [bam |-> FALSE, taxonomy |-> FALSE, tax_level |-> Unset,
             coverage |-> DefaultCoverage]
  /\ TracerInit
  /\ bpc = "start"
  /\ taxfile \in TaxFiles
  /\ BinsInit

\* args.taxonomy.readline(); location = tell(); line = readline()
IndexStart ==
  /\ bpc = "start"
  /\ LET header == ReadLine(taxfile, 0)
         first == ReadLine(taxfile, Len(header))
     IN /\ location' = Len(header)
        /\ line' = first
        /\ pos' = Len(header) + Len(first)
  /\ bpc' = "index"
  /\ UNCHANGED <<taxfile, file_index, builtIndex, binVars, tvars>>

\* one iteration of "while line"
IndexLine ==
  /\ bpc = "index"
  /\ line # <<>>
  /\ file_index' = IndexAppend(file_index, ReadName(line),
                               RecordedOffset(location, pos))
  /\ location' = pos
  /\ line' = ReadLine(taxfile, pos)
  /\ pos' = pos + Len(ReadLine(taxfile, pos))
  /\ UNCHANGED <<bpc, taxfile, builtIndex, binVars, tvars>>

\* readline returned '': the scan is over; builtIndex keeps the index as built
IndexEnd ==
  /\ bpc = "index"
  /\ line = <<>>
  /\ builtIndex' = file_index
  /\ bpc' = "bins"
  /\ UNCHANGED <<taxfile, pos, location, line, file_index, binVars, tvars>>

\* the output file's header line
OutHeader == <<"#", "S", "\n">>

\* the next "for fasta in args.fasta": unique = [], the output file is created
NextBin ==
  /\ bpc = "bins"
  /\ binNo < MaxBins
  /\ binNo' = binNo + 1
  /\ unique' = <<>>
  /\ records' = <<>>
  /\ prevQueried' = prevQueried \cup Range(queried)
  /\ queried' = <<>>
  /\ reads' = <<>>
  /\ out' = <<OutHeader>>
  /\ bpc' = "entries"
  /\ UNCHANGED <<indexVars, tvars>>

\* args.fasta is exhausted: main returns, sys.exit(0)
Finish ==
  /\ bpc = "bins"
  /\ bpc' = "done"
  /\ UNCHANGED <<indexVars, binVars, tvars>>

\* a duplicate test against the previous new identifier only
MutIsDuplicate(id, uniq) == uniq # <<>> /\ id = uniq[Len(uniq)]

\* if entry.id in unique
IsDuplicate(id, uniq) == id \in Range(uniq)

\* locations = file_index[read.query_name], on a defaultdict(list): a missing
\* key is inserted with an empty list
Lookup(index, name) ==
  IF name \in DOMAIN index THEN index ELSE Put(index, name, <<>>)

RECURSIVE LookupAll(_, _)
\* the index after the lookups of every read of a fetch
LookupAll(index, rs) ==
  IF rs = <<>> THEN index
  ELSE LookupAll(Lookup(index, Head(rs)), Tail(rs))

\* the offsets the for loops seek to, in order
RECURSIVE SeekOffsets(_, _)
SeekOffsets(index, rs) ==
  IF rs = <<>> THEN <<>>
  ELSE Lookup(index, Head(rs))[Head(rs)] \o SeekOffsets(index, Tail(rs))

\* args.taxonomy.seek(location); out_handle.write(args.taxonomy.readline())
CopiedLines(content, offsets) ==
  [i \in 1..Len(offsets) |-> ReadLine(content, offsets[i])]

\* the file position after the last seek and readline
PosAfter(content, offsets, p) ==
  IF offsets = <<>> THEN p
  ELSE offsets[Len(offsets)] + Len(ReadLine(content, offsets[Len(offsets)]))

\* one iteration of "for entry in fasta_iter(fasta_handle)": a duplicate is
\* skipped, a new identifier is fetched and its reads' records are copied
Entry ==
  /\ bpc = "entries"
  /\ Len(records) < MaxRecords
  /\ \E id \in SeqIds :
       /\ records' = Append(records, id)
       /\ IF IsDuplicate(id, unique)
            THEN UNCHANGED <<unique, queried, reads, file_index, pos, out>>
            ELSE \E rs \in ReadLists :
                   LET offsets == SeekOffsets(file_index, rs)
                   IN /\ unique' = Append(unique, id)
                      /\ queried' = Append(queried, id)
                      /\ reads' = rs
                      /\ file_index' = LookupAll(file_index, rs)
                      /\ out' = out \o CopiedLines(taxfile, offsets)
                      /\ pos' = PosAfter(taxfile, offsets, pos)
  /\ UNCHANGED <<bpc, taxfile, location, line, builtIndex, binNo, prevQueried,
                 tvars>>

\* bam.fetch raises for an identifier the BAM header does not name
EntryFetchFails ==
  /\ bpc = "entries"
  /\ Len(records) < MaxRecords
  /\ \E id \in SeqIds :
       /\ ~IsDuplicate(id, unique)
       /\ records' = Append(records, id)
       /\ unique' = Append(unique, id)
       /\ queried' = Append(queried, id)
  /\ bpc' = "error"
  /\ UNCHANGED <<indexVars, binNo, prevQueried, reads, out, tvars>>

\* the FASTA file is exhausted: both with blocks close
BinEnd ==
  /\ bpc = "entries"
  /\ bpc' = "bins"
  /\ UNCHANGED <<indexVars, binVars, tvars>>

NextBins ==
  \/ IndexStart \/ IndexLine \/ IndexEnd
  \/ NextBin \/ Finish \/ Entry \/ EntryFetchFails \/ BinEnd

SpecBins == InitBins /\ [][NextBins]_vars

\* the index build alone: main up to the end of its while loop
NextIndex == IndexStart \/ IndexLine \/ IndexEnd

SpecIndex == InitBins /\ [][NextIndex]_vars

\* =========================================================================
\* Properties
\* =========================================================================
\* PointID p is listed under two different contigs of the registry
SharedPoint(d, p) ==
  \E n1 \in DOMAIN d, n2 \in DOMAIN d :
     n1 # n2 /\ p \in PointsOf(d, n1) /\ p \in PointsOf(d, n2)

\* every PointID the registry holds
RegistryPoints(d) == UNION {PointsOf(d, name) : name \in DOMAIN d}

\* the PointIDs of the class file's lines, in file order
LinePoints(ls) == [i \in 1..Len(ls) |-> ParseInt(ls[i][1])]

StartsWith(s, prefix) ==
  Len(prefix) <= Len(s) /\ SubSeq(s, 1, Len(prefix)) = prefix

RECURSIVE FirstOccurrences(_)
\* a sequence without its later duplicates
FirstOccurrences(s) ==
  IF s = <<>> THEN <<>>
  ELSE LET r == FirstOccurrences(SubSeq(s, 1, Len(s) - 1))
       IN IF s[Len(s)] \in Range(r) THEN r ELSE Append(r, s[Len(s)])

\* the steps that are one iteration of a loop
IsFilterRef == pc = "filter" /\ pc' = "filter"
IsTaxRow == pc = "taxa" /\ pc' = "taxa"
IsEntry == bpc = "entries" /\ records' # records

\* ---- C1 as stated: in both modes every PointID of a row of the names table
\* is on exactly one line of the class file and no other PointID is, for all
\* names tables, those with a repeated (contig, sub-sequence) pair included.
C1_EveryTablePointOnce ==
  pc = "done" =>
    /\ \A p \in tablePoints :
         Cardinality({i \in 1..Len(cls_lines) : LinePoints(cls_lines)[i] = p}) = 1
    /\ \A i \in 1..Len(cls_lines) : LinePoints(cls_lines)[i] \in tablePoints

\* ---- C1 as amended: in both modes the class file has exactly one line for
\* every PointID the NameRegistry holds (for a repeated (contig, sub-sequence)
\* pair that is the PointID of its last row) and no line for any other
\* PointID; so every PointID of the names table is on exactly one line
\* whenever no two rows share a (contig, sub-sequence) pair.
C1_RegistryPointsOnce ==
  pc = "done" =>
    /\ \A p \in RegistryPoints(namesDict) :
         Cardinality({i \in 1..Len(cls_lines) : LinePoints(cls_lines)[i] = p}) = 1
    /\ \A i \in 1..Len(cls_lines) :
         LinePoints(cls_lines)[i] \in RegistryPoints(namesDict)
    /\ ~dupPair => RegistryPoints(namesDict) = tablePoints

\* taxonomic mode, three rows with three PointIDs and no repeated pair, one
\* point coloured by a taxon and one left at class 0
C1_Witness ==
  /\ pc = "done"
  /\ args.taxonomy
  /\ ~dupPair
  /\ Cardinality(tablePoints) = 3
  /\ Len(cls_lines) = 3
  /\ \E p \in DOMAIN classes, q \in DOMAIN classes :
       classes[p] = 0 /\ classes[q] = 1

\* ---- C2: binary mode with an alignment source. The coverage filter keeps a
\* reference exactly if its read count is not 0 and pileup columns / length
\* >= coverage / 100 (equality is a hit), nothing else changes the hit set,
\* and in the written class file every PointID of a contig (PointIDs being
\* unique to their contig, as the NameRegistry guarantees) has class 1 if the
\* contig is in the hit set and class 0 otherwise.
C2_BinaryCoverage ==
  [][ /\ IsFilterRef =>
           references' =
             IF /\ refData'.n # 0
                /\ refData'.b * 100 >= args.coverage * refData'.len
               THEN references \cup {reference'}
               ELSE references
      /\ (~args.taxonomy /\ ~IsFilterRef) => references' = references
      /\ (pc' = "done" /\ ~args.taxonomy /\ args.bam) =>
           \A name \in DOMAIN namesDict' :
             \A p \in PointsOf(namesDict', name) :
               ~SharedPoint(namesDict', p) =>
                 /\ classes'[p] = IF name \in references' THEN 1 ELSE 0
                 /\ \E i \in 1..Len(cls_lines') :
                      cls_lines'[i] = <<FormatInt(p), FormatInt(classes'[p])>>
    ]_vars

\* binary mode with a BAM file: a hit contig with two points of class 1 and
\* a contig outside the hit set with a point of class 0
C2_Witness ==
  /\ pc = "done"
  /\ ~args.taxonomy
  /\ args.bam
  /\ args.coverage = DefaultCoverage
  /\ \E n1 \in DOMAIN namesDict, n2 \in DOMAIN namesDict :
       /\ n1 \in references
       /\ n2 \notin references
       /\ Cardinality(PointsOf(namesDict, n1)) = 2
       /\ \A p \in PointsOf(namesDict, n1) : classes[p] = 1
       /\ \A p \in PointsOf(namesDict, n2) : classes[p] = 0

\* ---- C3 as stated: after the scan the number of distinct non-zero classes
\* equals the size of TaxonIndex, and the palette has that number + 1 entries.
C3_ClassCountEqualsTaxa ==
  (pc = "done" /\ args.taxonomy) =>
    /\ Cardinality(Range(classes) \ {0}) = Cardinality(DOMAIN taxa)
    /\ Len(header_colors) = Cardinality(DOMAIN taxa) + 1

\* ---- C3 as amended: TaxonIndex holds the taxon names of the eligible rows,
\* numbered 1..n in first-seen order; the palette has n + 1 entries; the
\* distinct non-zero classes are among 1..n, so there are at most n of them,
\* and exactly n when no contig has eligible rows with different taxon names
\* and no PointID is listed under two contigs.
C3_ClassCountAtMostTaxa ==
  (pc = "done" /\ args.taxonomy) =>
    LET n == Cardinality(DOMAIN taxa)
        used == Range(classes) \ {0}
    IN /\ DOMAIN taxa = {r[2] : r \in eligibleRows}
       /\ Range(taxa) = 1..n
       /\ taxa_number = n + 1
       /\ Len(header_colors) = n + 1
       /\ used \subseteq 1..n
       /\ ( /\ \A r1 \in eligibleRows, r2 \in eligibleRows :
                 r1[1] = r2[1] => r1[2] = r2[2]
            /\ \A p \in RegistryPoints(namesDict) : ~SharedPoint(namesDict, p) )
          => used = 1..n

\* two taxa seen, both classes in use, three palette entries
C3_Witness ==
  /\ pc = "done"
  /\ args.taxonomy
  /\ Cardinality(DOMAIN taxa) = 2
  /\ Range(classes) = {1, 2}
  /\ Len(header_colors) = 3

\* ---- C4 as stated: a taxonomy row (of a contig that is in the registry and
\* in references) is acted on exactly if its rank column and the requested
\* rank are equal after case folding.
C4_RankCaseInsensitive ==
  [][ ( /\ IsTaxRow
        /\ columns'.contig \in DOMAIN namesDict
        /\ columns'.contig \in references' )
      => (acted' <=> Lower(columns'.rank) = Lower(args.tax_level)) ]_vars

\* ---- C5 as stated: the count of the class file's "% <count>" line is the
\* number of contigs that passed the coverage filter, and 0 without an
\* alignment source, in both modes.
C5_HeaderCountIsHitCount ==
  pc = "done" =>
    /\ cls_count = Cardinality(HitSet)
    /\ ~args.bam => cls_count = 0

\* ---- C6: taxonomic mode. A row whose contig is in the registry and whose
\* rank column passes the program's rank comparison is acted on exactly if
\* no alignment source was given or the contig is in the HitSet; acting gives
\* the taxon an index and that class to the contig's points; with an
\* alignment source a row of a contig outside the HitSet changes neither the
\* classes nor TaxonIndex, and in the end every PointID of such a contig
\* (PointIDs being unique to their contig) has class 0.
C6_CoverageGating ==
  [][ /\ IsTaxRow =>
           /\ ( /\ columns'.contig \in DOMAIN namesDict
                /\ RankMatch(columns'.rank, tax_level) )
              => (acted' <=> (~args.bam \/ columns'.contig \in HitSet))
           /\ acted' =>
                /\ columns'.taxon \in DOMAIN taxa'
                /\ \A p \in PointsOf(namesDict, columns'.contig) :
                     classes'[p] = taxa'[columns'.taxon]
           /\ (args.bam /\ columns'.contig \notin HitSet) =>
                UNCHANGED <<classes, taxa, taxa_number>>
      /\ (pc' = "done" /\ args.taxonomy /\ args.bam) =>
           \A name \in DOMAIN namesDict' \ HitSet' :
             \A p \in PointsOf(namesDict', name) :
               ~SharedPoint(namesDict', p) => classes'[p] = 0
    ]_vars

\* with a BAM file: a first row was acted on, and the second row, of a
\* registry contig that failed the filter and with a matching rank, was not
C6_Witness ==
  /\ pc = "taxa"
  /\ args.bam
  /\ nread = 2
  /\ eligibleRows # {}
  /\ ~acted
  /\ columns.contig \in DOMAIN namesDict
  /\ columns.contig \notin HitSet
  /\ RankMatch(columns.rank, tax_level)

\* ---- C7: with a taxonomy table and no rank the run can only take the
\* configuration-error exit, and no input or output file is ever opened.
C7_ConfigErrorBeforeFiles ==
  (args.taxonomy /\ args.tax_level = Unset) =>
    /\ pc \in {"start", "exit1"}
    /\ opened = {}
    /\ cls_lines = <<>>
    /\ pc = "start" => ENABLED Reject

C7_Witness ==
  /\ pc = "exit1"
  /\ args.taxonomy
  /\ args.bam
  /\ opened = {}

\* ---- C8: within a bin the identifiers queried so far are the distinct
\* identifiers of the records read so far, in first-occurrence order; a
\* record whose identifier was already read in this bin queries nothing and
\* writes nothing; a new identifier is queried once, whatever earlier bins
\* queried.
C8_QueriedOncePerBin ==
  [][ /\ bpc' \in {"entries", "bins", "done", "error"} =>
           /\ queried' = FirstOccurrences(records')
           /\ unique' = queried'
      /\ (IsEntry /\ records'[Len(records')] \in Range(records)) =>
           /\ queried' = queried
           /\ out' = out
      /\ (IsEntry /\ records'[Len(records')] \notin Range(records)) =>
           /\ queried' = Append(queried, records'[Len(records')])
           /\ bpc' = "entries" =>
                out' = out \o CopiedLines(taxfile, SeekOffsets(builtIndex, reads'))
    ]_vars

\* second bin, records [s1, s1, s2]: s1 and s2 queried once each, s1 also
\* queried in the first bin, and lines written
C8_Witness ==
  /\ binNo = 2
  /\ records = <<"s1", "s1", "s2">>
  /\ queried = <<"s1", "s2">>
  /\ "s1" \in prevQueried
  /\ Len(out) > 1

\* the start offsets of the lines after the header line
LineStarts(content) ==
  {o \in 1..(Len(content) - 1) : content[o] = "\n"}

\* the offsets recorded for each identifier are those of its lines, in order
OffsetsExact ==
  /\ DOMAIN builtIndex =
       {ReadName(ReadLine(taxfile, o)) : o \in LineStarts(taxfile)}
  /\ \A id \in DOMAIN builtIndex :
       builtIndex[id] =
         SortedSeq({o \in LineStarts(taxfile) :
                      ReadName(ReadLine(taxfile, o)) = id})

\* ---- C9 as stated: after the build, seeking to any offset recorded for an
\* identifier and reading a line gives a non-header line whose first
\* tab-delimited column starts with the identifier; and the offsets of an
\* identifier are the start offsets of all its lines, in file order.
C9_RoundTripRawLine ==
  bpc \in {"bins", "entries", "done", "error"} =>
    /\ \A id \in DOMAIN builtIndex :
         \A i \in 1..Len(builtIndex[id]) :
           LET l == ReadLine(taxfile, builtIndex[id][i])
           IN /\ builtIndex[id][i] \in LineStarts(taxfile)
              /\ StartsWith(SplitFirst(l, "\t"), id)
    /\ OffsetsExact

\* ---- C9 as amended: after the build, seeking to any offset recorded for an
\* identifier and reading a line gives a non-header line which, once its
\* leading and trailing whitespace is stripped, has a first tab-delimited
\* column that starts with the identifier; and the offsets of an identifier
\* are the start offsets, in file order, of all the lines whose stripped
\* first column has it as first space-delimited token.
C9_RoundTripStrippedLine ==
  bpc \in {"bins", "entries", "done", "error"} =>
    /\ \A id \in DOMAIN builtIndex :
         \A i \in 1..Len(builtIndex[id]) :
           LET l == ReadLine(taxfile, builtIndex[id][i])
           IN /\ builtIndex[id][i] \in LineStarts(taxfile)
              /\ StartsWith(SplitFirst(Strip(l), "\t"), id)
    /\ OffsetsExact

\* an identifier with two records, one of them on a line that begins with
\* whitespace
C9_Witness ==
  /\ bpc = "bins"
  /\ \E id \in DOMAIN builtIndex :
       /\ Len(builtIndex[id]) = 2
       /\ id # <<>>
       /\ \E i \in 1..2 : taxfile[builtIndex[id][i] + 1] \in White

\* ---- C10 as stated: after the forward scan the index (its identifiers and
\* their offset lists) stays what the scan built, across all lookups.
C10_IndexReadOnly ==
  bpc \in {"bins", "entries", "done", "error"} => file_index = builtIndex

====
